---- MODULE Spec2Model ----
(***************************************************************************)
(* Model of the cpplint-cpp benchmark scripts.                             *)
(*                                                                         *)
(* Two variants of the script exist: src/benchmark/benchmark.py silences   *)
(* the child after its first invocation (quiet_after_first = TRUE) and     *)
(* src/benchmark.py never does (quiet_after_first = FALSE).  Apart from    *)
(* that and the default of --time, the two files are the same program.     *)
(*                                                                         *)
(* Strings are sequences of one-character strings.  Durations are integer  *)
(* clock ticks; the mean is kept as the exact fraction duration / count.   *)
(***************************************************************************)
EXTENDS Integers, Sequences, FiniteSets, TLC

VARIABLES
    quiet_after_first,  \* which variant of the script is running
    os_name,            \* os.name of the host
    args,               \* argparse namespace: cpplint_cpp, cpplint_py, options, file, time
    pc,                 \* position in the __main__ block
    cmd_cpp, cmd_py,    \* the two command strings
    command,            \* measure_time: parameter command
    repeat_time,        \* measure_time: parameter repeat_time
    duration,           \* measure_time: local duration
    count,              \* measure_time: local count
    mt_pc,              \* measure_time: "idle", "loop", "returned" or "raised"
    time1, time2,       \* results of the two measure_time calls
    stdout,             \* lines printed by the script
    exception,          \* uncaught exception, "none" while there is none
    exit_status,        \* <<>> while running, <<code>> after the interpreter exits
    run,                \* what the host saw of the current measure_time call
    last_run            \* the last child process the host was asked to start

vars == <<quiet_after_first, os_name, args, pc, cmd_cpp, cmd_py, command,
          repeat_time, duration, count, mt_pc, time1, time2, stdout,
          exception, exit_status, run, last_run>>

----------------------------------------------------------------------------
(* Bounds *)

MaxTime == 7        \* largest --time
MaxElapsed == 2     \* largest end_time - start_time of one invocation
MaxLen == 1         \* longest argument string of the command builder runs

\* invocations per call explored when the clock stalls or steps back
MaxCount == MaxTime

\* --time is any integer (argparse type=int), negative ones included
Times == (-1)..MaxTime
\* end_time - start_time: time.time() is a wall clock and may stall or step back
Elapsed == (-1)..MaxElapsed
PositiveElapsed == 1..MaxElapsed

----------------------------------------------------------------------------
(* Strings *)

Alphabet == {"/", "\\", "a"}

Strings(n) == UNION {[1..k -> Alphabet] : k \in 0..n}

DefaultCpplintCpp ==
    <<".", "/", "b", "u", "i", "l", "d", "/", "c", "p", "p", "l", "i", "n",
      "t", "-", "c", "p", "p">>

DefaultCpplintPy ==
    <<"p", "y", "t", "h", "o", "n", " ", "c", "p", "p", "l", "i", "n", "t",
      ".", "p", "y">>

DefaultOptions ==
    <<"-", "-", "r", "e", "c", "u", "r", "s", "i", "v", "e", " ", "-", "-",
      "q", "u", "i", "e", "t", " ", "-", "-", "c", "o", "u", "n", "t", "i",
      "n", "g", "=", "d", "e", "t", "a", "i", "l", "e", "d">>

ExampleFile == <<"s", "r", "c", "/">>

\* f"{invocation} {options} {file}"
FormatCommand(invocation, options, file) ==
    invocation \o <<" ">> \o options \o <<" ">> \o file

\* A replace that stops after the first match, as s.replace("/", "\\", 1) would
ReplaceFirstSlash(s) ==
    [i \in 1..Len(s) |->
        IF s[i] = "/" /\ (\A j \in 1..(i - 1) : s[j] # "/") THEN "\\" ELSE s[i]]

\* s.replace("/", "\\")
ReplaceSlash(s) ==
    [i \in 1..Len(s) |-> IF s[i] = "/" THEN "\\" ELSE s[i]]

----------------------------------------------------------------------------
(* Values *)

Tools == {"cpplint-cpp", "cpplint.py"}
OsNames == {"nt", "posix"}

\* What subprocess.run(command, shell=True) can do: the shell runs the
\* program and it exits 0 or non-zero; the shell cannot find or execute the
\* program and itself exits 127; the shell itself cannot be spawned and
\* Popen raises OSError.
ExitOutcomes == {"exit0", "exit1", "exit127"}
Outcomes == ExitOutcomes \cup {"OSError"}

NoTime == [num |-> 0, den |-> 0]
NoRun == [index |-> -1, streams |-> "none", outcome |-> "none"]
IdleRun == [tool |-> "none", n |-> 0, sum |-> 0, max |-> 0]

\* A mean computed with the floor division duration // count
MeanFloor(d, c) == [num |-> d \div c, den |-> 1]

\* duration / count, kept exact
Mean(d, c) == [num |-> d, den |-> c]

\* A loop that runs once more when the target is met exactly: duration <= repeat_time
LoopConditionInclusive(d, r) == d <= r

\* A loop that gives up one tick short of the target: duration + 1 < repeat_time
LoopConditionEarly(d, r) == d + 1 < r

\* while(duration < repeat_time)
LoopCondition(d, r) == d < r

\* A quiet variant that still shows the second invocation: count > 1
StreamsForOffByOne(quiet, c) ==
    IF quiet /\ c > 1 THEN "DEVNULL" ELSE "inherit"

\* stdout/stderr of the child: the quiet variant passes DEVNULL for both
\* unless count == 0; the other variant never passes them
StreamsFor(quiet, c) ==
    IF quiet /\ c # 0 THEN "DEVNULL" ELSE "inherit"

MeasuringLine(tool, cmd) ==
    [text |-> "Measuring time for", tool |-> tool, cmd |-> cmd, secs |-> NoTime]

ExecutionLine(tool, t) ==
    [text |-> "Execution time for", tool |-> tool, cmd |-> <<>>, secs |-> t]

----------------------------------------------------------------------------
(* Initial states *)

InitRest ==
    /\ quiet_after_first \in BOOLEAN
    /\ os_name \in OsNames
    /\ pc = "build"
    /\ cmd_cpp = <<>>
    /\ cmd_py = <<>>
    /\ command = <<>>
    /\ repeat_time = 0
    /\ duration = 0
    /\ count = 0
    /\ mt_pc = "idle"
    /\ time1 = NoTime
    /\ time2 = NoTime
    /\ stdout = <<>>
    /\ exception = "none"
    /\ exit_status = <<>>
    /\ run = IdleRun
    /\ last_run = NoRun

\* get_args(): the defaults of the parser, a file and any integer --time
Init ==
    /\ args \in [cpplint_cpp : {DefaultCpplintCpp},
                 cpplint_py : {DefaultCpplintPy},
                 options : {DefaultOptions},
                 file : {ExampleFile},
                 time : Times]
    /\ InitRest

\* get_args(): arbitrary short strings for the command builder
InitBuild ==
    /\ args \in [cpplint_cpp : Strings(MaxLen),
                 cpplint_py : Strings(MaxLen),
                 options : Strings(MaxLen),
                 file : Strings(MaxLen),
                 time : {1}]
    /\ InitRest

----------------------------------------------------------------------------
(* __main__ *)

\* cmd_cpp = f"..." ; cmd_py = f"..."
BuildCommands ==
    /\ pc = "build"
    /\ cmd_cpp' = FormatCommand(args.cpplint_cpp, args.options, args.file)
    /\ cmd_py' = FormatCommand(args.cpplint_py, args.options, args.file)
    /\ pc' = "os_check"
    /\ UNCHANGED <<quiet_after_first, os_name, args, command, repeat_time,
                   duration, count, mt_pc, time1, time2, stdout, exception,
                   exit_status, run, last_run>>

\* if os.name == 'nt': replace "/" by "\\" in both commands
FixPaths ==
    /\ pc = "os_check"
    /\ IF os_name = "nt"
       THEN /\ cmd_cpp' = ReplaceSlash(cmd_cpp)
            /\ cmd_py' = ReplaceSlash(cmd_py)
       ELSE UNCHANGED <<cmd_cpp, cmd_py>>
    /\ pc' = "measure1"
    /\ UNCHANGED <<quiet_after_first, os_name, args, command, repeat_time,
                   duration, count, mt_pc, time1, time2, stdout, exception,
                   exit_status, run, last_run>>

\* The two calls with their commands exchanged
ToolAtSwapped(p) == IF p = "measure1" THEN "cpplint.py" ELSE "cpplint-cpp"

\* The tool whose command each of the two measure_time calls is given:
\* time1 = measure_time(cmd_cpp, ...) comes first, time2 = measure_time(cmd_py, ...) second
ToolAt(p) == IF p = "measure1" THEN "cpplint-cpp" ELSE "cpplint.py"

CommandOf(tool) == IF tool = "cpplint-cpp" THEN cmd_cpp ELSE cmd_py

\* print(f"Measuring time for ...") ; measure_time(cmd, repeat_time) is entered
CallMeasure ==
    /\ pc \in {"measure1", "measure2"}
    /\ mt_pc \in {"idle", "returned"}
    /\ stdout' = Append(stdout, MeasuringLine(ToolAt(pc), CommandOf(ToolAt(pc))))
    /\ command' = CommandOf(ToolAt(pc))
    /\ repeat_time' = args.time
    /\ duration' = 0
    /\ count' = 0
    /\ mt_pc' = "loop"
    /\ run' = [tool |-> ToolAt(pc), n |-> 0, sum |-> 0, max |-> 0]
    /\ last_run' = NoRun
    /\ UNCHANGED <<quiet_after_first, os_name, args, pc, cmd_cpp, cmd_py,
                   time1, time2, exception, exit_status>>

\* subprocess.run(..., check=True): a non-zero exit status raises too
RaisesOnFailure(outcome) == outcome # "exit0"

\* Does the script go on after subprocess.run came back with this outcome?
\* run() is called without check=True: only a failure to spawn raises.
Raises(outcome) == outcome = "OSError"

\* One pass through the body of the while loop, the child taking `e' ticks
\* and ending with outcome `o'
LoopBody(e, o) ==
    /\ last_run' = [index |-> run.n,
                    streams |-> StreamsFor(quiet_after_first, count),
                    outcome |-> o]
    /\ IF Raises(o)
       THEN /\ exception' = IF o = "OSError" THEN "OSError" ELSE "CalledProcessError"
            /\ mt_pc' = "raised"
            /\ pc' = "raised"
            /\ exit_status' = <<1>>
            /\ run' = IF o = "OSError" THEN run
                      ELSE [run EXCEPT !.n = @ + 1, !.sum = @ + e,
                                       !.max = IF run.n = 0 \/ e > @ THEN e ELSE @]
            /\ UNCHANGED <<duration, count>>
       ELSE /\ duration' = duration + e
            /\ count' = count + 1
            /\ run' = [run EXCEPT !.n = @ + 1, !.sum = @ + e,
                                  !.max = IF run.n = 0 \/ e > @ THEN e ELSE @]
            /\ UNCHANGED <<exception, mt_pc, pc, exit_status>>
    /\ UNCHANGED <<quiet_after_first, os_name, args, cmd_cpp, cmd_py, command,
                   repeat_time, time1, time2, stdout>>

InvokeWith(E, O) ==
    /\ mt_pc = "loop"
    /\ LoopCondition(duration, repeat_time)
    /\ count < MaxCount
    /\ \E e \in E, o \in O : LoopBody(e, o)

Invoke == InvokeWith(Elapsed, Outcomes)

\* Every invocation returns and takes at least one tick
InvokeLive == InvokeWith(PositiveElapsed, ExitOutcomes)

\* The loop condition is false: return duration / count
Return ==
    /\ mt_pc = "loop"
    /\ ~LoopCondition(duration, repeat_time)
    /\ IF count = 0
       THEN /\ exception' = "ZeroDivisionError"
            /\ mt_pc' = "raised"
            /\ pc' = "raised"
            /\ exit_status' = <<1>>
            /\ UNCHANGED <<time1, time2>>
       ELSE /\ mt_pc' = "returned"
            /\ IF pc = "measure1"
               THEN /\ time1' = Mean(duration, count)
                    /\ pc' = "measure2"
                    /\ UNCHANGED time2
               ELSE /\ time2' = Mean(duration, count)
                    /\ pc' = "print"
                    /\ UNCHANGED time1
            /\ UNCHANGED <<exception, exit_status>>
    /\ UNCHANGED <<quiet_after_first, os_name, args, cmd_cpp, cmd_py, command,
                   repeat_time, duration, count, stdout, run, last_run>>

\* The two print(f"Execution time for ...") and the end of the script
PrintResults ==
    /\ pc = "print"
    /\ stdout' = stdout \o <<ExecutionLine("cpplint-cpp", time1),
                             ExecutionLine("cpplint.py", time2)>>
    /\ pc' = "exit"
    /\ exit_status' = <<0>>
    /\ UNCHANGED <<quiet_after_first, os_name, args, cmd_cpp, cmd_py, command,
                   repeat_time, duration, count, mt_pc, time1, time2,
                   exception, run, last_run>>

----------------------------------------------------------------------------
(* Specifications *)

Next ==
    \/ BuildCommands
    \/ FixPaths
    \/ CallMeasure
    \/ Invoke
    \/ Return
    \/ PrintResults

Spec == Init /\ [][Next]_vars

\* The command builder alone, over all short argument strings
NextBuild ==
    \/ BuildCommands
    \/ FixPaths

SpecBuild == InitBuild /\ [][NextBuild]_vars

\* Every child returns after a positive time; the script is a single thread
\* that is never stopped from outside
NextLive ==
    \/ BuildCommands
    \/ FixPaths
    \/ CallMeasure
    \/ InvokeLive
    \/ Return
    \/ PrintResults

SpecLive == Init /\ [][NextLive]_vars /\ WF_vars(NextLive)

----------------------------------------------------------------------------
(* Properties *)

ExecutionLines == {i \in 1..Len(stdout) : stdout[i].text = "Execution time for"}

\* The value the last measure_time call returned (meaningful when mt_pc = "returned")
LastResult == IF pc = "measure2" THEN time1 ELSE time2

\* C1: for every target_duration <= 0, measure_time executes the command
\* exactly once and returns that invocation's elapsed time as the mean; it
\* never returns or fails with invocation_count = 0.
C1_NonPositiveTargetRunsOnce ==
    (mt_pc \in {"returned", "raised"} /\ repeat_time <= 0 /\ exception # "OSError")
        => /\ mt_pc = "returned"
           /\ run.n = 1
           /\ count = 1
           /\ LastResult = [num |-> run.sum, den |-> 1]

\* C2: measure_time leaves its loop only when the accumulated duration has
\* reached the target: whenever it has returned, the accumulated duration is
\* at least the target, and a child is started only while the accumulated
\* duration is below the target.
C2_LeavesLoopOnlyAtTarget ==
    /\ [](mt_pc = "returned" => (duration >= repeat_time /\ run.sum >= repeat_time))
    /\ [][run'.n > run.n => run.sum < repeat_time]_vars

C2_Witness ==
    /\ mt_pc = "returned"
    /\ repeat_time > 0
    /\ run.n >= 2
    /\ run.sum > repeat_time

\* C3: if the command cannot be started at all (program missing or not
\* executable), the loop of that tool stops at once, no mean is printed, and
\* the script ends with a non-zero exit status.
C3_LaunchFailureAborts ==
    last_run.outcome \in {"exit127", "OSError"}
        => /\ mt_pc = "raised"
           /\ pc = "raised"
           /\ exit_status = <<1>>
           /\ ExecutionLines = {}

\* C4: in the quiet variant the child's stdout and stderr are inherited for
\* the first invocation of a measure_time call and discarded for every later
\* one of that call; in the other variant they are inherited every time.
C4_QuietAfterFirst ==
    last_run # NoRun
        => /\ last_run.index = 0 => last_run.streams = "inherit"
           /\ (quiet_after_first /\ last_run.index > 0) => last_run.streams = "DEVNULL"
           /\ ~quiet_after_first => last_run.streams = "inherit"

C4_Witness ==
    /\ quiet_after_first
    /\ last_run.index >= 2
    /\ last_run.streams = "DEVNULL"
    /\ last_run.outcome = "exit0"

\* C5 as stated: the loop of the reference tool (cpplint.py) completes before
\* the loop of the candidate tool (cpplint-cpp) begins.
C5_ReferenceBeforeCandidate ==
    run.tool = "cpplint-cpp" => time2 # NoTime

\* C5 as amended: the two runs are strictly sequential, the candidate first:
\* the loop of cpplint-cpp has completed and returned before the loop of
\* cpplint.py begins, and once cpplint.py is being measured no invocation of
\* cpplint-cpp follows.
C5_CandidateBeforeReference ==
    /\ [](run.tool = "cpplint.py" => (time1 # NoTime /\ pc # "measure1"))
    /\ [](run.tool = "cpplint-cpp" => (time2 = NoTime /\ pc \in {"measure1", "measure2", "raised"}))
    /\ [][run.tool = "cpplint.py" => run'.tool = "cpplint.py"]_vars

C5_Witness ==
    /\ run.tool = "cpplint.py"
    /\ run.n >= 2
    /\ time1.den >= 2

\* C6: a non-zero exit code of the child never stops or fails the script: the
\* pass through the loop that saw it ends like any other (one more count, the
\* elapsed time added, still in the loop, no exception), and the script only
\* ever fails without a child having exited.
C6_ExitCodeIgnored ==
    /\ [][(run'.n = run.n + 1 /\ last_run'.outcome \in {"exit1", "exit127"})
            => /\ mt_pc' = "loop"
               /\ pc' = pc
               /\ exception' = "none"
               /\ exit_status' = <<>>
               /\ count' = count + 1
               /\ duration' - duration = run'.sum - run.sum]_vars
    /\ [](pc = "raised" => last_run.outcome \notin ExitOutcomes)
    /\ [](exception \in {"none", "ZeroDivisionError", "OSError"})

C6_Witness ==
    /\ pc = "exit"
    /\ exit_status = <<0>>
    /\ last_run.outcome = "exit1"
    /\ run.n >= 2

\* The command `cmd' is `invocation', a space, the options, a space and the
\* file, each character kept, or with every "/" turned into "\" when `fixed'
CommandIs(cmd, invocation, fixed) ==
    LET a == Len(invocation)
        b == Len(args.options)
        c == Len(args.file)
        Ch(x) == IF fixed /\ x = "/" THEN "\\" ELSE x
    IN  /\ Len(cmd) = a + b + c + 2
        /\ \A i \in 1..a : cmd[i] = Ch(invocation[i])
        /\ cmd[a + 1] = " "
        /\ \A i \in 1..b : cmd[a + 1 + i] = Ch(args.options[i])
        /\ cmd[a + b + 2] = " "
        /\ \A i \in 1..c : cmd[a + b + 2 + i] = Ch(args.file[i])

\* C7: each command is "<invocation> <options> <file>"; on nt every "/" of
\* the whole string is replaced by "\", elsewhere the string is left as it
\* is; the result is a function of the inputs, and normalising it once more
\* changes nothing.
C7_CommandBuilder ==
    /\ pc = "os_check"
         => /\ CommandIs(cmd_cpp, args.cpplint_cpp, FALSE)
            /\ CommandIs(cmd_py, args.cpplint_py, FALSE)
    /\ pc \notin {"build", "os_check"}
         => /\ CommandIs(cmd_cpp, args.cpplint_cpp, os_name = "nt")
            /\ CommandIs(cmd_py, args.cpplint_py, os_name = "nt")
            /\ os_name = "nt" => /\ ReplaceSlash(cmd_cpp) = cmd_cpp
                                 /\ ReplaceSlash(cmd_py) = cmd_py
                                 /\ \A i \in 1..Len(cmd_cpp) : cmd_cpp[i] # "/"
                                 /\ \A i \in 1..Len(cmd_py) : cmd_py[i] # "/"

C7_Witness ==
    /\ os_name = "nt"
    /\ pc = "measure1"
    /\ args.cpplint_cpp = <<"/">>
    /\ args.cpplint_py = <<"a">>
    /\ args.options = <<"/">>
    /\ args.file = <<"/">>
    /\ cmd_cpp = <<"\\", " ", "\\", " ", "\\">>
    /\ cmd_py = <<"a", " ", "\\", " ", "\\">>

\* C8: for a target > 0, when measure_time returns, the number of invocations
\* is at least ceil(target / m) for m the largest single elapsed time (that
\* is, m > 0 and n * m >= target); with every invocation taking 2 ticks and a
\* target of 7 (0.1 s and 0.35 s) there are exactly 4 invocations.
C8_AtLeastCeilInvocations ==
    (mt_pc = "returned" /\ repeat_time > 0)
        => /\ run.max > 0
           /\ run.n * run.max >= repeat_time
           /\ count * run.max >= repeat_time
           /\ (repeat_time = 7 /\ run.max = 2 /\ run.sum = 2 * run.n) => run.n = 4

C8_Witness ==
    /\ mt_pc = "returned"
    /\ repeat_time = 7
    /\ run.max = 2
    /\ run.sum = 8
    /\ run.n = 4

\* C9: the value measure_time returns is the sum of the elapsed times of the
\* invocations of that call divided by their number: each invocation adds its
\* elapsed time once and counts once, and a call starts from 0 whatever the
\* other call accumulated.
C9_MeanIsSumOverCount ==
    /\ mt_pc \in {"loop", "returned"} => (duration = run.sum /\ count = run.n)
    /\ mt_pc = "returned"
         => /\ run.n > 0
            /\ LastResult.den > 0
            /\ LastResult.num * run.n = run.sum * LastResult.den

C9_Witness ==
    /\ pc = "print"
    /\ mt_pc = "returned"
    /\ time1 = [num |-> 4, den |-> 3]
    /\ run.n = 2
    /\ run.sum = 3
    /\ time2 = [num |-> 3, den |-> 2]

\* C10: when every invocation returns after a positive elapsed time,
\* measure_time, once entered, eventually returns.
C10_EventuallyReturns ==
    (mt_pc = "loop") ~> (mt_pc = "returned")

\* What does hold of termination: under the same assumption every call with
\* a target > 0 returns and the script ends; with a target <= 0 the call ends
\* too, by the ZeroDivisionError.
TerminatesWhenElapsedPositive ==
    /\ (args.time > 0) => <>(pc = "exit")
    /\ (args.time <= 0) => <>(pc = "raised" /\ exception = "ZeroDivisionError")

\* A clock that stalls or steps back lets the loop go on without the
\* accumulated duration getting nearer to the target.
NoProgressReachable ==
    /\ mt_pc = "loop"
    /\ count = MaxCount
    /\ duration <= 0
    /\ repeat_time > 0

====
